---- MODULE Spec2Model ----
(***************************************************************************)
(* A model of the distributed counter node of counter.py                   *)
(* (class DistributedCounter) and of the proof pipeline of                 *)
(* signature_proof.py (class SignatureProofGenerator).                     *)
(*                                                                         *)
(* Each node is one asyncio event loop.  A coroutine runs without          *)
(* interruption between two points where it really suspends, so a handler  *)
(* or a loop iteration that never suspends is one atomic action.  The      *)
(* ledger (the contract), the peers and the clock are the environment.     *)
(*                                                                         *)
(* counter.py uses the modules time, os, aiohttp and aiohttp.web without   *)
(* importing them.  The model reads these names as the libraries they      *)
(* name; where a behaviour below rests on a library's semantics the        *)
(* comment says so.                                                        *)
(***************************************************************************)
EXTENDS Integers, Sequences, FiniteSets, TLC

(***************************************************************************)
(* Bounds of the model                                                     *)
(***************************************************************************)
\* cap on counter_value per node (the code has none)
MaxCount == 2
\* largest token id walletToTokenId answers in the model
MaxToken == 2

(***************************************************************************)
(* Identities and the environment's values                                 *)
(***************************************************************************)
\* wallet addresses of the nodes that run the service
Nodes == {"n1", "n2"}
\* the null identity compared against in check_leader_status
ZeroAddr == "0x0000000000000000000000000000000000000000"
\* the values currentLeader() can return
Addrs == Nodes \cup {ZeroAddr}
\* no value / no call
None == "none"
\* time.time(): no branch of the code reads a timestamp, so the instants of
\* a run are abstracted to one value, later than the 0 that
\* last_leader_heartbeat starts at.
time_time == 1

\* The ledger or RPC call of a poll cycle that raises, if any.  A call that
\* the cycle never reaches cannot fail it.
FailPoints == {"nofail", "currentLeader", "getActiveInstances",
               "get_transaction_count", "send_raw_transaction"}

VARIABLES
  currentLeader,          \* ledger: the contract's currentLeader()
  ledgerVotes,            \* ledger: [voter][target] -> standing vote
  responsive,             \* environment: does node x answer its /health
  is_leader,              \* self.is_leader of each node
  counter_value,          \* self.counter_value of each node
  operation_log,          \* self.operation_log of each node
  last_leader_heartbeat,  \* self.last_leader_heartbeat of each node
  pc,                     \* position of each node's monitor_leader_health
  fresh,                  \* history: the node has read currentLeader()
                          \*   since the ledger last changed it
  accepted,               \* history: number of 200 responses of /increment
  last,                   \* history: the latest poll cycle or /increment
                          \*   request of any node, with the calls it made
  reg,                    \* each node's register_instance: its outcome,
                          \*   the external calls it made, what it
                          \*   submitted, self.token_id and
                          \*   self.instance_id_bytes32
  phase,                  \* where each node's start() is
  call                    \* history: the latest direct call of a function
                          \*   of SignatureProofGenerator, with its
                          \*   arguments and its result

runVars == <<currentLeader, ledgerVotes, responsive, is_leader,
             counter_value, operation_log, last_leader_heartbeat, pc,
             fresh, accepted, last>>

vars == <<runVars, reg, phase, call>>

ledgerVars == <<currentLeader, ledgerVotes>>
counterVars == <<counter_value, operation_log, accepted>>
monitorVars == <<is_leader, pc, fresh>>

NoEvent == [kind |-> None]

\* no call in progress; earlier: the instance id and the digest of the
\* latest proof that generate_proof returned, if any
NoCall == [fn |-> None, earlier |-> <<>>]

\* register_instance has not run; token_id and instance_id_bytes32 as set
\* at lines 70-71 (bytes32(0): 32 zero bytes)
NoTx == [sent |-> FALSE]
NotRegistered ==
  [result |-> None, calls |-> <<>>, tx |-> NoTx, receipt |-> <<>>,
   warned |-> FALSE, token_id |-> None,
   instance_id_bytes32 |-> [i \in 1..32 |-> 0]]

(***************************************************************************)
(* __init__ (counter.py 63-71): the state after construction               *)
(***************************************************************************)
Init ==
  /\ currentLeader = ZeroAddr
  /\ ledgerVotes = [n \in Nodes |-> [x \in Nodes |-> None]]
  /\ responsive = [x \in Nodes |-> TRUE]
  /\ is_leader = [n \in Nodes |-> FALSE]
  /\ counter_value = [n \in Nodes |-> 0]
  /\ operation_log = [n \in Nodes |-> <<>>]
  /\ last_leader_heartbeat = [n \in Nodes |-> 0]
  /\ pc = [n \in Nodes |-> "check"]
  /\ fresh = [n \in Nodes |-> FALSE]
  /\ accepted = [n \in Nodes |-> 0]
  /\ last = NoEvent
  /\ reg = [n \in Nodes |-> NotRegistered]
  /\ phase = [n \in Nodes |-> "new"]
  /\ call = NoCall

(***************************************************************************)
(* start (counter.py 205-243)                                              *)
(***************************************************************************)
\* start() creates the monitor and heartbeat tasks (212-213), builds the
\* application and awaits runner.setup() and site.start() (226-229): from
\* the first of these suspensions on the two tasks run, and from the
\* second on the server answers requests.  register_instance is awaited
\* only afterwards (234).
Start(n) ==
  /\ phase[n] = "new"
  /\ phase' = [phase EXCEPT ![n] = "serving"]
  /\ UNCHANGED <<runVars, reg, call>>

\* faulty variant: a start() that logs a failed registration and goes on
start_after_register_Swallowed(result) == "running"

\* Where start() is once register_instance is over (234-243): in its
\* "while True" loop when the call returned.  When the call raised, nothing
\* in start() catches it (the try of 237 begins after the call), so it
\* leaves start() and main(), and asyncio.run (519) cancels the tasks that
\* are left and closes the event loop before it re-raises.
start_after_register(result) ==
  IF result = "registered" THEN "running" ELSE "failed"

\* faulty variant: tasks whose handlers catch the cancellation and go on
TasksRun_CancelSwallowed(n) == phase[n] \in {"serving", "running", "stopped"}

\* The monitor and heartbeat tasks exist and have not been cancelled.
\* Task.cancel() (248, 250) throws CancelledError into the task at the
\* sleep it waits in; CancelledError is a BaseException, so the
\* "except Exception" of 260 and 379 does not catch it and the task ends.
TasksRun(n) == phase[n] \in {"serving", "running"}

\* The thread of the node's event loop is inside a synchronous ledger call:
\* Web3 over HTTPProvider (line 60) blocks until the answer is there, and
\* the coroutines call it directly, without an executor.
Blocked(n) == pc[n] = "reading"

\* the node's event loop is there and free to run a task or a handler
Live(n) == phase[n] \in {"serving", "running"} /\ ~Blocked(n)

\* self.http_client: None (line 67) until start() opens the session (209);
\* closed by cleanup() (251-252) and by nothing else
http_client(n) ==
  CASE phase[n] = "new" -> None
    [] phase[n] = "stopped" -> "closed"
    [] OTHER -> "open"

\* cleanup() (245-252), run by the finally of start() (242-243) when the
\* wait loop of 238-239 is interrupted: both tasks are cancelled and the
\* session is closed; start() and the event loop end after it.
Cleanup(n) ==
  /\ phase[n] = "running"
  /\ ~Blocked(n)
  /\ phase' = [phase EXCEPT ![n] = "stopped"]
  /\ pc' = [pc EXCEPT ![n] = "cancelled"]
  /\ UNCHANGED <<ledgerVars, responsive, is_leader, fresh, last,
                 last_leader_heartbeat, counterVars, reg, call>>

(***************************************************************************)
(* ping_leader (counter.py 293-308)                                        *)
(***************************************************************************)
\* aiohttp.ClientTimeout is a plain attrs/dataclass value: it has no
\* __aenter__/__aexit__, so "async with aiohttp.ClientTimeout(...)" (303)
\* raises before the request of line 304 is made.
ClientTimeoutIsAsyncContextManager == FALSE

\* leader_url (301) is the fixed "http://localhost:8080/health": the node
\* probed is the probing host itself, whatever leader_address is.
ProbeTarget(n, leader_address) == n

\* does the node with address x answer GET /health with status 200
\* (health_check, 460-466); nobody answers for the zero address
Answers(x) == x \in Nodes /\ responsive[x]

\* The GET of line 304, None when it is not reached.
ping_get(n, leader_address, fail) ==
  IF fail = "getActiveInstances" THEN None
  ELSE IF ~ClientTimeoutIsAsyncContextManager THEN None
  ELSE ProbeTarget(n, leader_address)

\* The return value: every exception is caught and gives False (306-308).
ping_leader(n, leader_address, fail) ==
  LET t == ping_get(n, leader_address, fail) IN
  IF t = None THEN FALSE ELSE Answers(t)

(***************************************************************************)
(* vote_no_confidence / vote_confidence (counter.py 310-366)               *)
(***************************************************************************)
\* self.wallet_private_key (322, 351) is assigned nowhere in the class:
\* reading it raises AttributeError, caught at 336 / 365.
HasWalletPrivateKey == FALSE

\* The castVote transactions that reach send_raw_transaction and succeed.
cast_vote(target, noConfidence, fail) ==
  IF fail = "get_transaction_count" THEN <<>>
  ELSE IF ~HasWalletPrivateKey THEN <<>>
  ELSE IF fail = "send_raw_transaction" THEN <<>>
  ELSE <<[target |-> target, noConfidence |-> noConfidence]>>

vote_no_confidence(target_leader, fail) == cast_vote(target_leader, TRUE, fail)

vote_confidence(target_leader, fail) == cast_vote(target_leader, FALSE, fail)

(***************************************************************************)
(* check_leader_status (counter.py 264-291)                                *)
(***************************************************************************)
\* faulty variant: a node that never steps down
NextIsLeader_Sticky(n, read, fail) ==
  IF fail = "currentLeader" THEN is_leader[n]
  ELSE is_leader[n] \/ read = n

\* faulty variant: leadership asserted whenever some leader exists
NextIsLeader_AnyLeader(n, read, fail) ==
  IF fail = "currentLeader" THEN is_leader[n]
  ELSE read # ZeroAddr

\* faulty variant: a node that gives up leadership when its read fails
NextIsLeader_ResetOnError(n, read, fail) ==
  IF fail = "currentLeader" THEN FALSE
  ELSE read = n

\* is_leader after the cycle (269-278); unchanged when the read raises.
NextIsLeader(n, read, fail) ==
  IF fail = "currentLeader" THEN is_leader[n]
  ELSE read = n

\* faulty variant: the zero-address test of line 281 left out
Probes_NoZeroCheck(n, read, fail) ==
  fail # "currentLeader" /\ read # n

\* faulty variant: the test of line 269 not applied to the probe
Probes_SelfToo(n, read, fail) ==
  fail # "currentLeader" /\ read # ZeroAddr

\* Is ping_leader called in the cycle (274, 281-282).
Probes(n, read, fail) ==
  fail # "currentLeader" /\ read # n /\ read # ZeroAddr

\* The vote transactions the cycle submits (283-288).
CycleVotes(n, read, fail) ==
  IF ~Probes(n, read, fail) THEN <<>>
  ELSE IF ~ping_leader(n, read, fail) THEN vote_no_confidence(read, fail)
  ELSE vote_confidence(read, fail)

\* The ledger call of the cycle that raised, None when every call the
\* cycle reached returned.
RpcFailed(n, read, fail) ==
  IF fail = "currentLeader" THEN fail
  ELSE IF ~Probes(n, read, fail) THEN None
  ELSE IF fail \in {"getActiveInstances", "get_transaction_count"} THEN fail
  ELSE IF fail = "send_raw_transaction" /\ HasWalletPrivateKey THEN fail
  ELSE None

\* Does an exception leave check_leader_status: the try of 266 spans the
\* whole body and 290 catches Exception.
CheckRaises(fail) == FALSE

\* castVote on the ledger: the caller's standing vote on target is replaced.
ApplyVotes(votes, n, txs) ==
  IF txs = <<>> THEN votes
  ELSE [votes EXCEPT ![n][txs[1].target] =
          IF txs[1].noConfidence THEN "noConfidence" ELSE "confidence"]

\* faulty variant: a loop without handlers: a failed ledger call ends the task
MonitorNextPc_Unguarded(n, read, fail) ==
  IF fail = "currentLeader" THEN "stopped" ELSE "sleep10"

\* monitor_leader_health (254-262): where the loop is after the call of
\* check_leader_status; 260 catches what the call raises.
MonitorNextPc(n, read, fail) ==
  IF CheckRaises(fail) THEN "sleep5" ELSE "sleep10"

\* What the cycle did, for the record: the value read, the ledger call that
\* raised, the address ping_leader was called on, whether that node answers
\* its health check, the target of the GET, what ping_leader returned, the
\* address the vote coroutine was called on and the transactions sent.
CycleEvent(n, read, fail) ==
  [kind |-> "cycle", node |-> n,
   read |-> IF fail = "currentLeader" THEN "ERR" ELSE read,
   rpcFailed |-> RpcFailed(n, read, fail),
   probed |-> IF Probes(n, read, fail) THEN read ELSE None,
   peerUp |-> Probes(n, read, fail) /\ Answers(read),
   is_responsive |-> Probes(n, read, fail) /\ ping_leader(n, read, fail),
   voted |-> IF Probes(n, read, fail) THEN read ELSE None,
   httpGet |-> IF Probes(n, read, fail) THEN ping_get(n, read, fail)
               ELSE None,
   txs |-> CycleVotes(n, read, fail)]

\* One iteration of monitor_leader_health up to its sleep (256-262): the
\* cycle never suspends (ping_leader and the vote coroutines return without
\* awaiting anything), so it is atomic on its node.  BeginLedgerRead is the
\* moment the thread enters currentLeader().call() (267) and
\* CheckLeaderStatus the return of that call with the rest of the cycle;
\* CheckLeaderStatus taken from "check" is the two at once, which loses
\* nothing, since no step of the node is possible in between.
BeginLedgerRead(n) ==
  /\ TasksRun(n)
  /\ pc[n] = "check"
  /\ pc' = [pc EXCEPT ![n] = "reading"]
  /\ UNCHANGED <<ledgerVars, responsive, is_leader, fresh, last,
                 last_leader_heartbeat, counterVars, reg, phase, call>>

CheckLeaderStatus(n) ==
  /\ TasksRun(n)
  /\ pc[n] \in {"check", "reading"}
  /\ \E fail \in FailPoints :
       LET read == currentLeader IN
       /\ is_leader' = [is_leader EXCEPT ![n] = NextIsLeader(n, read, fail)]
       /\ fresh' = [fresh EXCEPT ![n] = IF fail # "currentLeader" THEN TRUE
                                        ELSE @]
       /\ last' = CycleEvent(n, read, fail)
       /\ ledgerVotes' = ApplyVotes(ledgerVotes, n, CycleVotes(n, read, fail))
       /\ pc' = [pc EXCEPT ![n] = MonitorNextPc(n, read, fail)]
  /\ UNCHANGED <<currentLeader, responsive, last_leader_heartbeat,
                 counterVars>>
  /\ UNCHANGED <<reg, phase, call>>

\* asyncio.sleep(10) (259) or asyncio.sleep(5) (262) returns.
MonitorWake(n) ==
  /\ TasksRun(n)
  /\ pc[n] \in {"sleep10", "sleep5"}
  /\ pc' = [pc EXCEPT ![n] = "check"]
  /\ UNCHANGED <<ledgerVars, responsive, is_leader, fresh, last,
                 last_leader_heartbeat, counterVars>>
  /\ UNCHANGED <<reg, phase, call>>

(***************************************************************************)
(* leader_heartbeat (counter.py 368-381), one iteration                    *)
(***************************************************************************)
\* faulty variant: the timestamp written in every iteration
heartbeat_writes_Always(n) == TRUE

\* the test of line 372
heartbeat_writes(n) == is_leader[n]

\* faulty variant: a heartbeat task that also writes is_leader
LeaderHeartbeat_StepsDown(n) ==
  /\ TasksRun(n)
  /\ ~Blocked(n)
  /\ last_leader_heartbeat' = [last_leader_heartbeat EXCEPT ![n] = IF heartbeat_writes(n) THEN time_time ELSE @]
  /\ is_leader' = [is_leader EXCEPT ![n] = FALSE]
  /\ last' = [kind |-> "heartbeat", node |-> n, is_leader |-> is_leader[n]]
  /\ UNCHANGED <<ledgerVars, responsive, pc, fresh, counterVars>>
  /\ UNCHANGED <<reg, phase, call>>

LeaderHeartbeat(n) ==
  /\ TasksRun(n)
  /\ ~Blocked(n)
  /\ last_leader_heartbeat' =
       [last_leader_heartbeat EXCEPT ![n] =
          IF heartbeat_writes(n) THEN time_time ELSE @]
  /\ last' = [kind |-> "heartbeat", node |-> n, is_leader |-> is_leader[n]]
  /\ UNCHANGED <<ledgerVars, responsive, monitorVars, counterVars>>
  /\ UNCHANGED <<reg, phase, call>>

(***************************************************************************)
(* increment_counter (counter.py 391-416): the handler has no await, so a  *)
(* request is served in one step of the event loop                         *)
(***************************************************************************)
\* faulty variant: the leader test of line 393 left out
MayIncrement_Always(n) == TRUE

\* the guard of line 393
MayIncrement(n) == is_leader[n]

\* faulty variant: the counter left as it is
Incremented_Stuck(v) == v

\* line 399
Incremented(v) == v + 1

\* the entry of lines 402-407
Operation(n, v) ==
  [timestamp |-> time_time, operation |-> "increment", new_value |-> v,
   leader |-> n]

\* faulty variant: operations numbered from zero
operation_id_ZeroBased(log) == Len(log) - 1

\* 'operation_id' of the answer (line 415): the length of the log after the
\* append
operation_id(log) == Len(log)

IncrementCounter(n) ==
  /\ Live(n)
  /\ MayIncrement(n) => counter_value[n] < MaxCount
  /\ IF ~MayIncrement(n)
     THEN /\ last' = [kind |-> "increment", node |-> n, status |-> 403]
          /\ UNCHANGED <<counter_value, operation_log, accepted>>
     ELSE LET v == Incremented(counter_value[n]) IN
          /\ counter_value' = [counter_value EXCEPT ![n] = v]
          /\ operation_log' =
               [operation_log EXCEPT ![n] = Append(@, Operation(n, v))]
          /\ last' = [kind |-> "increment", node |-> n, status |-> 200,
                      new_value |-> v,
                      operation_id |-> operation_id(operation_log'[n])]
          /\ accepted' = [accepted EXCEPT ![n] = @ + 1]
  /\ UNCHANGED <<ledgerVars, responsive, monitorVars,
                 last_leader_heartbeat>>
  /\ UNCHANGED <<reg, phase, call>>

(***************************************************************************)
(* The handlers that only read (counter.py 383-389, 418-470)               *)
(***************************************************************************)
ReadHandlers ==
  {"get_counter", "get_log", "get_status", "get_members", "health_check",
   "get_wallet_info_endpoint"}

\* a request served by one of them: nothing of self is assigned
ReadRequest(n) ==
  /\ Live(n)
  /\ \E h \in ReadHandlers :
       last' = [kind |-> "read", node |-> n, handler |-> h]
  /\ UNCHANGED <<ledgerVars, responsive, monitorVars, counterVars,
                 last_leader_heartbeat, reg, phase, call>>

(***************************************************************************)
(* Bytes and text                                                          *)
(***************************************************************************)
\* k bytes of value b
Rep(b, k) == [i \in 1..k |-> b]

\* the value of a hexadecimal digit, -1 for any other character
HexVal(c) ==
  CASE c = "0" -> 0 [] c = "1" -> 1 [] c = "2" -> 2 [] c = "3" -> 3
    [] c = "4" -> 4 [] c = "5" -> 5 [] c = "6" -> 6 [] c = "7" -> 7
    [] c = "8" -> 8 [] c = "9" -> 9
    [] c \in {"a", "A"} -> 10 [] c \in {"b", "B"} -> 11
    [] c \in {"c", "C"} -> 12 [] c \in {"d", "D"} -> 13
    [] c \in {"e", "E"} -> 14 [] c \in {"f", "F"} -> 15
    [] OTHER -> -1

IsSpace(c) == c \in {" ", "\t", "\n", "\r", "\f"}

\* str.replace('0x', ''): every occurrence is removed (two occurrences
\* cannot overlap)
Is0xAt(t, i) == i >= 1 /\ i < Len(t) /\ t[i] = "0" /\ t[i + 1] = "x"
Kept(c) == c # ""

\* faulty variant: the text decoded with its prefix
Remove0x_Kept(t) == t

Remove0x(t) ==
  SelectSeq([i \in 1..Len(t) |->
               IF Is0xAt(t, i) \/ Is0xAt(t, i - 1) THEN "" ELSE t[i]],
            Kept)

\* t[2:]
DropTwo(t) == SubSeq(t, 3, Len(t))

\* bytes.fromhex: pairs of hexadecimal digits, white space skipped before
\* a pair and at the end; anything else raises ValueError (ok = FALSE)
NotSpace(c) == ~IsSpace(c)
FromHex(t) ==
  LET d == SelectSeq(t, NotSpace)
      good ==
        /\ \A i \in 1..Len(d) : HexVal(d[i]) >= 0
        /\ Len(d) % 2 = 0
        /\ \A i \in 1..Len(t) :
              IsSpace(t[i]) =>
                Len(SelectSeq(SubSeq(t, 1, i - 1), NotSpace)) % 2 = 0
  IN
  IF ~good THEN [ok |-> FALSE, val |-> <<>>]
  ELSE [ok |-> TRUE,
        val |-> [k \in 1..(Len(d) \div 2) |->
                   16 * HexVal(d[2 * k - 1]) + HexVal(d[2 * k])]]

\* bytes.ljust(k, b'\x00'): zero bytes on the right up to length k; a
\* longer value is returned as it is
LJust(b, k) == IF Len(b) >= k THEN b ELSE b \o Rep(0, k - Len(b))

\* faulty variant: a hash function with a digest of 20 bytes
Sha256_ShortDigest(instance_id) ==
  IF instance_id = "node-1" THEN Rep(53, 20) ELSE Rep(23, 20)

\* hashlib.sha256(instance_id.encode()).digest(), tabulated for the
\* instance ids of the model
Sha256(instance_id) ==
  CASE instance_id = "node-1" ->
      <<53, 151, 27, 230, 233, 187, 2, 74, 137, 85, 130, 254, 14, 66, 224,
        72, 72, 168, 109, 165, 80, 170, 239, 15, 204, 191, 186, 134, 249,
        159, 97, 125>>
    [] instance_id = "node-2" ->
      <<23, 121, 245, 159, 77, 242, 81, 246, 184, 26, 235, 8, 251, 82, 165,
        216, 74, 212, 238, 248, 51, 199, 253, 240, 188, 87, 108, 209, 170,
        177, 29, 36>>

\* faulty variant: the 64-byte public key in place of the address
AddressBytes_PublicKey(key) ==
  IF key = "key-1" THEN Rep(17, 64) ELSE Rep(34, 64)

\* Account.from_key(key).address as 20 bytes.  The curve arithmetic and
\* the Keccak hash are not modelled: each key of the model has a fixed
\* 20-byte value of its own.
AddressBytes(key) ==
  CASE key = "key-1" -> Rep(17, 20)
    [] key = "key-2" -> Rep(34, 20)

(***************************************************************************)
(* SignatureProofGenerator (signature_proof.py)                            *)
(***************************************************************************)
\* One element of signature_chain as bytes (95-99): text is decoded from
\* hexadecimal after '0x' is removed, bytes are kept.
NormalizeSignature(sig) ==
  IF sig.str THEN FromHex(Remove0x(sig.val))
  ELSE [ok |-> TRUE, val |-> sig.val]

\* app_id as bytes32 (110-111)
AppIdBytes32(app_id) ==
  LET b == FromHex(DropTwo(app_id)) IN
  IF ~b.ok THEN b ELSE [ok |-> TRUE, val |-> LJust(b.val, 32)]

\* faulty variant: a chain of three signatures asked for
chain_too_short_ThreeNeeded(signature_chain) == Len(signature_chain) < 3

\* the test of line 89
chain_too_short(signature_chain) == Len(signature_chain) < 2

\* generate_proof (65-120).  key_response and info are what the KeyProvider
\* answers; fail names the KeyProvider call that raises, if any.  The result
\* carries the KeyProvider calls made.
generate_proof(instance_id, key_purpose, key_response, info, fail) ==
  LET chain == key_response.signature_chain IN
  IF fail = "get_key"
    THEN [ok |-> FALSE, error |-> "KeyProviderError", calls |-> <<"get_key">>]
  ELSE IF chain_too_short(chain)
    THEN [ok |-> FALSE, error |-> "InsufficientSignatureChain",
          calls |-> <<"get_key">>]
  ELSE
  LET app == NormalizeSignature(chain[1])
      kms == NormalizeSignature(chain[2])
      app_id == AppIdBytes32(info.app_id)
  IN
  IF ~app.ok \/ ~kms.ok
    THEN [ok |-> FALSE, error |-> "ValueError", calls |-> <<"get_key">>]
  ELSE IF fail = "info"
    THEN [ok |-> FALSE, error |-> "KeyProviderError",
          calls |-> <<"get_key", "info">>]
  ELSE IF ~app_id.ok
    THEN [ok |-> FALSE, error |-> "ValueError",
          calls |-> <<"get_key", "info">>]
  ELSE [ok |-> TRUE, error |-> None, calls |-> <<"get_key", "info">>,
        proof |-> [instance_id_bytes32 |-> Sha256(instance_id),
                   derived_public_key |-> AddressBytes(key_response.key),
                   app_signature |-> app.val,
                   kms_signature |-> kms.val,
                   purpose |-> key_purpose,
                   app_id |-> app_id.val]]

\* faulty variant: the app_id rule of lines 189-191 left out
verify_proof_format_FiveRules(proof) ==
  IF Len(proof.instance_id_bytes32) # 32 THEN FALSE
  ELSE IF Len(proof.derived_public_key) # 20 THEN FALSE
  ELSE IF Len(proof.app_signature) < 65 THEN FALSE
  ELSE IF Len(proof.kms_signature) < 65 THEN FALSE
  ELSE IF proof.purpose = "" THEN FALSE
  ELSE TRUE

\* verify_proof_format (155-199) on a SignatureProof whose fields have the
\* types the dataclass declares
verify_proof_format(proof) ==
  IF Len(proof.instance_id_bytes32) # 32 THEN FALSE
  ELSE IF Len(proof.derived_public_key) # 20 THEN FALSE
  ELSE IF Len(proof.app_signature) < 65 THEN FALSE
  ELSE IF Len(proof.kms_signature) < 65 THEN FALSE
  ELSE IF proof.purpose = "" THEN FALSE
  ELSE IF Len(proof.app_id) = 0 THEN FALSE
  ELSE TRUE

\* verify_proof_format on any object.  A field is a Python value: t its
\* type ("missing" when the object has no such attribute), v its elements
\* for bytes and str and its one value for int.
\* len(x) raises TypeError on None and on an int; reading a missing
\* attribute raises AttributeError
len_raises(x) == x.t \notin {"bytes", "str"}

\* "not x": None, 0 and the empty bytes or str are false values
py_not(x) ==
  CASE x.t = "none" -> TRUE
    [] x.t = "int" -> x.v[1] = 0
    [] OTHER -> Len(x.v) = 0

\* The body of the try (166-194): "True", "False", or "raise" when a check
\* raises.  The checks run in the order written and the first that fails
\* or raises ends the body.
verify_proof_format_try(proof) ==
  IF len_raises(proof.instance_id_bytes32) THEN "raise"
  ELSE IF Len(proof.instance_id_bytes32.v) # 32 THEN "False"
  ELSE IF len_raises(proof.derived_public_key) THEN "raise"
  ELSE IF Len(proof.derived_public_key.v) # 20 THEN "False"
  ELSE IF len_raises(proof.app_signature) THEN "raise"
  ELSE IF Len(proof.app_signature.v) < 65 THEN "False"
  ELSE IF len_raises(proof.kms_signature) THEN "raise"
  ELSE IF Len(proof.kms_signature.v) < 65 THEN "False"
  ELSE IF proof.purpose.t = "missing" THEN "raise"
  ELSE IF py_not(proof.purpose) THEN "False"
  ELSE IF len_raises(proof.purpose) THEN "raise"
  ELSE IF proof.app_id.t = "missing" THEN "raise"
  ELSE IF py_not(proof.app_id) THEN "False"
  ELSE IF len_raises(proof.app_id) THEN "raise"
  ELSE "True"

\* faulty variant: the checks without the try around them
verify_proof_format_call_Unguarded(proof) == verify_proof_format_try(proof)

\* The call as a whole (165-199): "except Exception" logs and returns False.
verify_proof_format_call(proof) ==
  IF verify_proof_format_try(proof) = "raise" THEN "False"
  ELSE verify_proof_format_try(proof)

\* faulty variant: the token test of line 140 left out
get_registration_data_NoTokenTest(token_id, instance_id, key_purpose, key_response, info, fail) ==
  LET g == generate_proof(instance_id, key_purpose, key_response, info, fail)
  IN
  IF fail = "walletToTokenId"
    THEN [ok |-> FALSE, error |-> "LedgerCallError",
          calls |-> <<"walletToTokenId">>]
  ELSE IF ~g.ok
    THEN [ok |-> FALSE, error |-> g.error,
          calls |-> <<"walletToTokenId">> \o g.calls]
  ELSE [ok |-> TRUE, error |-> None,
        calls |-> <<"walletToTokenId">> \o g.calls,
        proof |-> g.proof,
        data |-> [token_id |-> token_id,
                  instance_id_bytes32 |-> g.proof.instance_id_bytes32,
                  derived_public_key |-> g.proof.derived_public_key,
                  app_signature |-> g.proof.app_signature,
                  kms_signature |-> g.proof.kms_signature,
                  purpose |-> g.proof.purpose]]

\* faulty variant: the token test of line 140 moved behind the proof generation
get_registration_data_LateTokenTest(token_id, instance_id, key_purpose, key_response, info, fail) ==
  LET g == generate_proof(instance_id, key_purpose, key_response, info, fail)
  IN
  IF fail = "walletToTokenId"
    THEN [ok |-> FALSE, error |-> "LedgerCallError",
          calls |-> <<"walletToTokenId">>]
  ELSE IF token_id = 0
    THEN [ok |-> FALSE, error |-> "NoNFT",
          calls |-> <<"walletToTokenId">> \o g.calls]
  ELSE IF ~g.ok
    THEN [ok |-> FALSE, error |-> g.error,
          calls |-> <<"walletToTokenId">> \o g.calls]
  ELSE [ok |-> TRUE, error |-> None,
        calls |-> <<"walletToTokenId">> \o g.calls,
        proof |-> g.proof,
        data |-> [token_id |-> token_id,
                  instance_id_bytes32 |-> g.proof.instance_id_bytes32,
                  derived_public_key |-> g.proof.derived_public_key,
                  app_signature |-> g.proof.app_signature,
                  kms_signature |-> g.proof.kms_signature,
                  purpose |-> g.proof.purpose]]

\* get_registration_data (122-153).  The result also carries the proof the
\* data was copied from.
get_registration_data(token_id, instance_id, key_purpose, key_response, info, fail) ==
  IF fail = "walletToTokenId"
    THEN [ok |-> FALSE, error |-> "LedgerCallError",
          calls |-> <<"walletToTokenId">>]
  ELSE IF token_id = 0
    THEN [ok |-> FALSE, error |-> "NoNFT", calls |-> <<"walletToTokenId">>]
  ELSE
  LET g == generate_proof(instance_id, key_purpose, key_response, info, fail)
  IN
  IF ~g.ok
    THEN [ok |-> FALSE, error |-> g.error,
          calls |-> <<"walletToTokenId">> \o g.calls]
  ELSE [ok |-> TRUE, error |-> None,
        calls |-> <<"walletToTokenId">> \o g.calls,
        proof |-> g.proof,
        data |-> [token_id |-> token_id,
                  instance_id_bytes32 |-> g.proof.instance_id_bytes32,
                  derived_public_key |-> g.proof.derived_public_key,
                  app_signature |-> g.proof.app_signature,
                  kms_signature |-> g.proof.kms_signature,
                  purpose |-> g.proof.purpose]]

(***************************************************************************)
(* register_instance (counter.py 141-203)                                  *)
(***************************************************************************)
\* self.instance_id and the key the KeyProvider derives for the node
InstanceId(n) == IF n = "n1" THEN "node-1" ELSE "node-2"
KeyOf(n) == IF n = "n1" THEN "key-1" ELSE "key-2"

\* self.dstack_key_purpose (line 51)
KeyPurpose(dstack_key_purpose) ==
  IF dstack_key_purpose = "" THEN "ethereum" ELSE dstack_key_purpose

\* faulty variant: the receipt's status not looked at
receipt_ok_Unchecked(status) == TRUE

\* the test of line 189
receipt_ok(status) == status = 1

\* faulty variant: a failing updateClusterSize re-raised
after_updateClusterSize_Fatal(fail) ==
  IF fail = "updateClusterSize" THEN "LedgerCallError" ELSE "registered"

\* The outcome once the receipt reported success (194-199): the call of
\* updateClusterSize has a try of its own, whose handler only logs.
after_updateClusterSize(fail) == "registered"

\* The whole coroutine; it awaits nothing, so it is one step.  token_id is
\* what walletToTokenId answers, key_response and info what the KeyProvider
\* answers, status the receipt's status; fail names the external call that
\* raises, if any.  The result: the outcome, the external calls made in
\* order, the submitted registerInstanceWithProof arguments with the proof
\* they were copied from and the answer of walletToTokenId in the same
\* call, the status of the receipt if one was obtained,
\* whether the warning of line 199 was logged, and the two fields of self.
register_instance(n, token_id, purpose, key_response, info, fail, status) ==
  LET d == get_registration_data(token_id, InstanceId(n), purpose,
                                 key_response, info, fail)
  IN
  IF ~d.ok
    THEN [NotRegistered EXCEPT !.result = d.error, !.calls = d.calls]
  ELSE
  LET stored == [NotRegistered EXCEPT
                   !.token_id = d.data.token_id,
                   !.instance_id_bytes32 = d.data.instance_id_bytes32]
      c1 == d.calls \o <<"get_transaction_count">>
      c2 == c1 \o <<"send_raw_transaction">>
      c3 == c2 \o <<"wait_for_transaction_receipt">>
      c4 == c3 \o <<"updateClusterSize">>
      sent == [sent |-> TRUE, args |-> d.data, proof |-> d.proof,
               answered |-> token_id]
  IN
  IF fail = "get_transaction_count"
    THEN [stored EXCEPT !.result = "LedgerCallError", !.calls = c1]
  ELSE IF fail = "send_raw_transaction"
    THEN [stored EXCEPT !.result = "LedgerCallError", !.calls = c2]
  ELSE IF fail = "wait_for_transaction_receipt"
    THEN [stored EXCEPT !.result = "LedgerCallError", !.calls = c3,
                        !.tx = sent]
  ELSE IF ~receipt_ok(status)
    THEN [stored EXCEPT !.result = "RegistrationFailed", !.calls = c3,
                        !.tx = sent, !.receipt = <<status>>]
  ELSE [stored EXCEPT !.result = after_updateClusterSize(fail),
                      !.calls = c4, !.tx = sent, !.receipt = <<status>>,
                      !.warned = (fail = "updateClusterSize")]

\* what the KeyProvider may answer in the model
raw(b, k) == [str |-> FALSE, val |-> Rep(b, k)]
HexDigit(v) ==
  <<"0", "1", "2", "3", "4", "5", "6", "7", "8", "9",
    "a", "b", "c", "d", "e", "f">>[v + 1]
HexText(b) ==
  [i \in 1..(2 * Len(b)) |->
     IF i % 2 = 1 THEN HexDigit(b[(i + 1) \div 2] \div 16)
     ELSE HexDigit(b[i \div 2] % 16)]
hex(b, k) == [str |-> TRUE, val |-> HexText(Rep(b, k))]
hex0x(b, k) == [str |-> TRUE, val |-> <<"0", "x">> \o HexText(Rep(b, k))]

SignatureChains ==
  { <<>>,
    <<raw(171, 65)>>,
    <<raw(171, 65), raw(205, 65)>>,
    <<raw(171, 64), raw(205, 65)>>,
    <<raw(171, 65), raw(205, 3)>>,
    <<hex(171, 65), hex0x(205, 66)>>,
    <<raw(171, 65), raw(205, 65), raw(1, 65)>>,
    <<[str |-> TRUE, val |-> <<"z", "z">>], raw(205, 65)>> }

AppIds ==
  { <<"0", "x">> \o HexText(Rep(7, 20)),
    HexText(Rep(7, 20)),
    <<"0", "x", "7">> }

Purposes == {"", "mainnet"}

\* what may go wrong outside the node: an external call that raises, or a
\* mined transaction whose receipt reports failure
RegFailPoints ==
  {"nofail", "walletToTokenId", "get_key", "info", "get_transaction_count",
   "send_raw_transaction", "wait_for_transaction_receipt", "reverted",
   "updateClusterSize"}

\* start() awaits register_instance once (line 234)
RegisterWith(n, tokens, purposes, chains, app_ids, fails) ==
  /\ phase[n] = "serving"
  /\ ~Blocked(n)
  /\ reg[n].result = None
  /\ \E token_id \in tokens, purpose \in purposes, chain \in chains,
        app_id \in app_ids, fail \in fails :
       reg' = [reg EXCEPT ![n] =
                 register_instance(n, token_id, KeyPurpose(purpose),
                                   [key |-> KeyOf(n),
                                    signature_chain |-> chain],
                                   [app_id |-> app_id], fail,
                                   IF fail = "reverted" THEN 0 ELSE 1)]
  /\ phase' = [phase EXCEPT ![n] = start_after_register(reg'[n].result)]
  /\ UNCHANGED <<runVars, call>>

RegisterInstance(n) ==
  RegisterWith(n, 0..MaxToken, Purposes, SignatureChains, AppIds,
               RegFailPoints)

(***************************************************************************)
(* Environment                                                             *)
(***************************************************************************)
\* the contract changes its leader (electLeader, not called by the node)
LedgerElect(x) ==
  /\ x # currentLeader
  /\ currentLeader' = x
  /\ fresh' = [n \in Nodes |-> FALSE]
  /\ UNCHANGED <<ledgerVotes, responsive, is_leader, pc, last,
                 last_leader_heartbeat, counterVars>>
  /\ UNCHANGED <<reg, phase, call>>

\* node x starts or stops answering its health endpoint
SetResponsive(x) ==
  /\ responsive' = [responsive EXCEPT ![x] = ~@]
  /\ UNCHANGED <<ledgerVars, monitorVars, last_leader_heartbeat,
                 counterVars, last>>
  /\ UNCHANGED <<reg, phase, call>>

Next ==
  \/ \E n \in Nodes : Start(n)
  \/ \E n \in Nodes : CheckLeaderStatus(n)
  \/ \E n \in Nodes : MonitorWake(n)
  \/ \E n \in Nodes : LeaderHeartbeat(n)
  \/ \E n \in Nodes : IncrementCounter(n)
  \/ \E x \in Addrs : LedgerElect(x)
  \/ \E x \in Nodes : SetResponsive(x)

Spec == Init /\ [][Next]_vars

\* main() awaits start(), and the event loop runs every task that is
\* ready: a monitor whose sleep has ended is resumed, and a resumed monitor
\* completes its cycle.
Fairness ==
  \A n \in Nodes :
    /\ WF_vars(Start(n))
    /\ WF_vars(CheckLeaderStatus(n))
    /\ WF_vars(MonitorWake(n))

\* The monitors and their environment.  The request handlers and the
\* heartbeat write nothing a monitor reads.
MonitorNext ==
  \/ \E n \in Nodes : Start(n)
  \/ \E n \in Nodes : CheckLeaderStatus(n)
  \/ \E n \in Nodes : MonitorWake(n)
  \/ \E x \in Addrs : LedgerElect(x)
  \/ \E x \in Nodes : SetResponsive(x)

FairSpec == Init /\ [][MonitorNext]_vars /\ Fairness

\* Registration alone: each node runs register_instance once, against any
\* answers of the ledger and the KeyProvider.
RegNext ==
  \/ \E n \in Nodes : Start(n)
  \/ \E n \in Nodes : RegisterInstance(n)

RegSpec == Init /\ [][RegNext]_vars

\* The functions of SignatureProofGenerator called directly, as the tests of
\* the repository call them, one call at a time.
SomeProofs ==
  { [instance_id_bytes32 |-> Rep(1, a), derived_public_key |-> Rep(2, b),
     app_signature |-> Rep(3, c), kms_signature |-> Rep(4, d),
     purpose |-> p, app_id |-> Rep(5, e)] :
      a \in {31, 32, 33}, b \in {19, 20, 21}, c \in {64, 65, 66},
      d \in {64, 65, 66}, p \in {"", "ethereum"}, e \in {0, 32} }

VerifyProofFormat ==
  /\ call.fn = None
  /\ \E proof \in SomeProofs :
       call' = [fn |-> "verify_proof_format", earlier |-> call.earlier,
                proof |-> proof, out |-> verify_proof_format(proof)]
  /\ UNCHANGED <<runVars, reg, phase>>

\* Python values
py_bytes(k) == [t |-> "bytes", v |-> Rep(1, k)]
py_str(chars) == [t |-> "str", v |-> chars]
py_int(k) == [t |-> "int", v |-> <<k>>]
py_none == [t |-> "none", v |-> <<>>]
py_missing == [t |-> "missing", v |-> <<>>]

SomeObjects ==
  { [instance_id_bytes32 |-> a, derived_public_key |-> b,
     app_signature |-> c, kms_signature |-> d, purpose |-> p,
     app_id |-> e] :
      a \in {py_bytes(32), py_bytes(31), py_none, py_missing},
      b \in {py_bytes(20), py_int(20), py_missing},
      c \in {py_bytes(65), py_bytes(64), py_none},
      d \in {py_bytes(65), py_str(Rep("a", 65)), py_int(0)},
      p \in {py_str(<<"e", "t", "h">>), py_str(<<>>), py_none, py_int(0),
             py_int(7), py_missing},
      e \in {py_bytes(32), py_bytes(0), py_none, py_int(7), py_missing} }

VerifyObject ==
  /\ call.fn = None
  /\ \E proof \in SomeObjects :
       call' = [fn |-> "verify_proof_format_object",
                earlier |-> call.earlier, proof |-> proof,
                out |-> verify_proof_format_call(proof)]
  /\ UNCHANGED <<runVars, reg, phase>>

InstanceIds == {"node-1", "node-2"}
Keys == {"key-1", "key-2"}
ProofPurposes == {"", "ethereum"}
ProofAppIds ==
  { <<"0", "x">> \o HexText(Rep(7, 20)),
    HexText(Rep(7, 20)),
    <<"0", "x">> \o HexText(Rep(7, 32)),
    <<"0", "x">> \o HexText(Rep(7, 33)),
    <<"0", "x", "7">>,
    <<>> }

GenerateProof ==
  /\ call.fn = None
  /\ \E instance_id \in InstanceIds, key_purpose \in ProofPurposes,
        key \in Keys, chain \in SignatureChains, app_id \in ProofAppIds,
        fail \in {"nofail", "get_key", "info"} :
       call' = [fn |-> "generate_proof", earlier |-> call.earlier,
                instance_id |-> instance_id, key_purpose |-> key_purpose,
                key_response |-> [key |-> key, signature_chain |-> chain],
                info |-> [app_id |-> app_id], fail |-> fail,
                out |-> generate_proof(instance_id, key_purpose,
                                       [key |-> key,
                                        signature_chain |-> chain],
                                       [app_id |-> app_id], fail)]
  /\ UNCHANGED <<runVars, reg, phase>>

\* the three ways the KeyProvider may hand over the byte string b
rawOf(b) == [str |-> FALSE, val |-> b]
hexOf(b) == [str |-> TRUE, val |-> HexText(b)]
hex0xOf(b) == [str |-> TRUE, val |-> <<"0", "x">> \o HexText(b)]
Encodings == {"raw", "hex", "0x"}
Encode(e, b) ==
  CASE e = "raw" -> rawOf(b) [] e = "hex" -> hexOf(b) [] OTHER -> hex0xOf(b)

\* sig is b in one of the three encodings
EncodesAs(sig, b) ==
  IF sig.str THEN sig.val = HexText(b) \/ sig.val = <<"0", "x">> \o HexText(b)
  ELSE sig.val = b

SomeBytes == {Rep(171, 65), <<0, 16, 255>>, <<10, 0>>, <<>>}

\* generate_proof on a chain whose two signatures are byte strings in any
\* of the three encodings
GenerateProofEncoded ==
  /\ call.fn = None
  /\ \E b1 \in SomeBytes, b2 \in SomeBytes :
       \E e1 \in Encodings, e2 \in Encodings, app_id \in ProofAppIds :
         LET chain == <<Encode(e1, b1), Encode(e2, b2)>> IN
         call' = [fn |-> "generate_proof", earlier |-> call.earlier,
                  instance_id |-> "node-1", key_purpose |-> "ethereum",
                  key_response |-> [key |-> "key-1",
                                    signature_chain |-> chain],
                  info |-> [app_id |-> app_id], fail |-> "nofail",
                  out |-> generate_proof("node-1", "ethereum",
                                         [key |-> "key-1",
                                          signature_chain |-> chain],
                                         [app_id |-> app_id], "nofail")]
  /\ UNCHANGED <<runVars, reg, phase>>

\* the call is over; the digest of a returned proof is kept for comparison
Return ==
  /\ call.fn # None
  /\ call' = [fn |-> None,
              earlier |-> IF call.fn = "generate_proof" /\ call.out.ok
                          THEN <<[instance_id |-> call.instance_id,
                                  digest |->
                                    call.out.proof.instance_id_bytes32]>>
                          ELSE call.earlier]
  /\ UNCHANGED <<runVars, reg, phase>>

ProofNext ==
  \/ VerifyProofFormat
  \/ VerifyObject
  \/ GenerateProof
  \/ GenerateProofEncoded
  \/ Return

ProofSpec == Init /\ [][ProofNext]_vars

\* start() from construction on, with what runs beside it.  The
\* registration's answers are one of each kind: no token, a KeyProvider
\* error, a refused submission, a receipt without success, and success.
StartRegister(n) ==
  RegisterWith(n, {0, 1}, {""}, {<<raw(171, 65), raw(205, 65)>>},
               {<<"0", "x">> \o HexText(Rep(7, 20))},
               {"nofail", "get_key", "send_raw_transaction", "reverted"})

StartNext ==
  \/ \E n \in Nodes : Start(n)
  \/ \E n \in Nodes : StartRegister(n)
  \/ \E n \in Nodes : CheckLeaderStatus(n)
  \/ \E n \in Nodes : MonitorWake(n)
  \/ \E n \in Nodes : IncrementCounter(n)
  \/ \E x \in Addrs : LedgerElect(x)

StartSpec == Init /\ [][StartNext]_vars

\* the node whose life is followed; the other one stays unstarted
Observed == {"n1"}

\* The whole life of a node: start(), its tasks, its handlers and
\* cleanup(), with the moments its thread is inside a ledger call.
NodeNext ==
  \/ \E n \in Observed : Start(n)
  \/ \E n \in Observed : StartRegister(n)
  \/ \E n \in Observed : BeginLedgerRead(n)
  \/ \E n \in Observed : CheckLeaderStatus(n)
  \/ \E n \in Observed : MonitorWake(n)
  \/ \E n \in Observed : LeaderHeartbeat(n)
  \/ \E n \in Observed : IncrementCounter(n)
  \/ \E n \in Observed : ReadRequest(n)
  \/ \E n \in Observed : Cleanup(n)
  \/ \E x \in Addrs : LedgerElect(x)

NodeSpec == Init /\ [][NodeNext]_vars

(***************************************************************************)
(* Claims about the leader monitor                                         *)
(***************************************************************************)
\* the step is a poll cycle of node n
StepIsCycle(n) ==
  pc[n] \in {"check", "reading"} /\ pc'[n] \in {"sleep10", "sleep5"}

\* the latest event is a poll cycle that read leader x, x neither the
\* polling node nor the zero address, and every ledger call it made returned
CycleOnPeer ==
  /\ last.kind = "cycle"
  /\ last.read \in Nodes \ {last.node}
  /\ last.rpcFailed = None

\* C1: is_leader of a node changes only in a poll cycle of that node whose
\* currentLeader() read returned, and after such a cycle it is true exactly
\* when the value read is the node's own address: it becomes true on the
\* cycle that reads the node itself and false on the first later cycle that
\* reads another value.
C1_LeaderFollowsRead ==
  [][\A n \in Nodes :
       IF StepIsCycle(n) /\ last'.read # "ERR"
       THEN /\ last'.read = currentLeader
            /\ is_leader'[n] = (last'.read = n)
       ELSE is_leader'[n] = is_leader[n]]_vars

\* a node that was leader (it accepted an increment) has stepped down in a
\* cycle that read another leader
C1_Witness ==
  /\ last.kind = "cycle"
  /\ last.read \in Nodes \ {last.node}
  /\ ~is_leader[last.node]
  /\ counter_value[last.node] > 0

\* C2 as stated: at most one node has is_leader = TRUE, and only the node
\* the ledger currently names.
C2_SingleLeaderAlways ==
  /\ Cardinality({n \in Nodes : is_leader[n]}) <= 1
  /\ \A n \in Nodes : is_leader[n] => currentLeader = n

\* C2 amended: for every node that has completed a poll since the ledger
\* last changed currentLeader, is_leader is true exactly when the ledger
\* names that node; so at most one such node has is_leader = TRUE.
C2_FreshLeaderUnique ==
  /\ \A n \in Nodes : fresh[n] => (is_leader[n] <=> currentLeader = n)
  /\ Cardinality({n \in Nodes : fresh[n] /\ is_leader[n]}) <= 1

\* both nodes have polled since the last election and one of them leads
C2_Witness ==
  /\ \A n \in Nodes : fresh[n]
  /\ \E n \in Nodes : is_leader[n]

\* C4 as stated: a cycle that reads a peer X as leader while X does not
\* answer its health check submits exactly the one transaction
\* castVote(X, TRUE).
C4_OneNoConfidenceVote ==
  (CycleOnPeer /\ ~last.peerUp) =>
     last.txs = <<[target |-> last.read, noConfidence |-> TRUE]>>

\* C5 as stated: a cycle that reads a peer X as leader while X answers its
\* health check submits exactly the one transaction castVote(X, FALSE).
C5_OneConfidenceVote ==
  (CycleOnPeer /\ last.peerUp) =>
     last.txs = <<[target |-> last.read, noConfidence |-> FALSE]>>

\* C6 as stated: when the ledger keeps naming X, X stays unresponsive and
\* node n keeps completing cycles whose ledger calls all return, a
\* no-confidence vote of n against X is eventually on the ledger; and no
\* no-confidence vote is recorded by a cycle that found X responsive.
C6_FailureDetected ==
  /\ \A n \in Nodes : \A x \in Nodes \ {n} :
        (/\ <>[](currentLeader = x /\ ~responsive[x])
         /\ []<>(CycleOnPeer /\ last.node = n))
        => <>(ledgerVotes[n][x] = "noConfidence")
  /\ [](CycleOnPeer /\ last.peerUp =>
          \A i \in 1..Len(last.txs) : ~last.txs[i].noConfidence)

\* C7: a cycle that reads the zero address leaves is_leader false, calls no
\* liveness probe and submits no castVote.
C7_ZeroLeaderSkipsVoting ==
  (last.kind = "cycle" /\ last.read = ZeroAddr) =>
     /\ ~is_leader[last.node]
     /\ last.probed = None
     /\ last.httpGet = None
     /\ last.txs = <<>>

\* a node that was leader polls while the ledger names nobody
C7_Witness ==
  /\ last.kind = "cycle"
  /\ last.read = ZeroAddr
  /\ counter_value[last.node] > 0

\* C8: whatever call of a cycle fails, the monitor task never ends: it is
\* always about to poll or asleep, and it polls again and again.
C8_MonitorNeverStops ==
  \A n \in Nodes :
    /\ [](pc[n] \in {"check", "sleep10", "sleep5"})
    /\ []<>(pc[n] = "check")
    /\ []<>(pc[n] # "check")

\* a cycle whose currentLeader() read failed is over and the loop sleeps
C8_Witness ==
  /\ last.kind = "cycle"
  /\ last.read = "ERR"
  /\ pc[last.node] = "sleep10"

(***************************************************************************)
(* Claims about the counter                                                *)
(***************************************************************************)
\* the step serves an /increment request at node n
StepIsIncrement(n) ==
  /\ last'.kind = "increment"
  /\ last'.node = n
  /\ last' # last \/ counter_value'[n] # counter_value[n]

\* C3: counter_value and operation_log of a node change only in an
\* increment_counter step taken while is_leader is true, which adds one to
\* the counter and appends the entry of the new value; a request served
\* while is_leader is false answers 403 and changes neither; the accepted
\* requests of a node recorded pairwise different values and each of them
\* is counted.
C3_LeaderOnlySerialIncrements ==
  /\ [][\A n \in Nodes :
          /\ (counter_value'[n] # counter_value[n]
                 \/ operation_log'[n] # operation_log[n])
              => /\ StepIsIncrement(n)
                 /\ is_leader[n]
                 /\ last'.status = 200
                 /\ last'.new_value = counter_value[n] + 1
                 /\ counter_value'[n] = counter_value[n] + 1
                 /\ operation_log'[n] =
                      Append(operation_log[n], Operation(n, last'.new_value))
          /\ (StepIsIncrement(n) /\ ~is_leader[n])
              => /\ last'.status = 403
                 /\ counter_value'[n] = counter_value[n]
                 /\ operation_log'[n] = operation_log[n]]_vars
  /\ [](\A n \in Nodes :
          /\ accepted[n] = counter_value[n]
          /\ accepted[n] = Len(operation_log[n])
          /\ \A i, j \in 1..Len(operation_log[n]) :
                i # j => operation_log[n][i].new_value
                           # operation_log[n][j].new_value)

\* a node that accepted two requests has lost leadership and refused one
C3_Witness ==
  /\ last.kind = "increment"
  /\ last.status = 403
  /\ Len(operation_log[last.node]) >= 2

(***************************************************************************)
(* Claims about start()                                                    *)
(***************************************************************************)
\* the step is an /increment request that node n accepted
StepIsAccept(n) == accepted'[n] # accepted[n]

\* C11 as stated: a node polls the ledger (and with the poll probes and
\* votes) and accepts increments only after its register_instance has
\* returned successfully.
C11_RegisteredBeforeParticipating ==
  [][\A n \in Nodes :
       (StepIsCycle(n) \/ StepIsAccept(n)) => reg[n].result = "registered"]_vars

C9_NoTokenNoProof ==
  \A n \in Nodes :
    /\ reg[n].result = "NoNFT"
        => /\ reg[n].calls = <<"walletToTokenId">>
           /\ ~reg[n].tx.sent
    /\ (reg[n].result # None /\ reg[n].calls = <<"walletToTokenId">>)
        => reg[n].result \in {"NoNFT", "LedgerCallError"}

\* a registration was refused for the lack of a token
C9_Witness == \E n \in Nodes : reg[n].result = "NoNFT"

\* the external calls of a registration, in order, hold b right after a
FollowedBy(calls, a, b) ==
  \E i \in 1..(Len(calls) - 1) : calls[i] = a /\ calls[i + 1] = b

C14_ClusterSizeBestEffort ==
  \A n \in Nodes :
    /\ (\E i \in 1..Len(reg[n].calls) : reg[n].calls[i] = "updateClusterSize")
        => /\ reg[n].receipt = <<1>>
           /\ reg[n].calls[Len(reg[n].calls)] = "updateClusterSize"
           /\ FollowedBy(reg[n].calls, "wait_for_transaction_receipt",
                         "updateClusterSize")
           /\ reg[n].result = "registered"
    /\ reg[n].warned
        => /\ reg[n].result = "registered"
           /\ reg[n].calls[Len(reg[n].calls)] = "updateClusterSize"
    /\ reg[n].result = "registered"
        => reg[n].calls[Len(reg[n].calls)] = "updateClusterSize"

\* a registration succeeded although its updateClusterSize call failed
C14_Witness ==
  \E n \in Nodes : reg[n].warned /\ reg[n].result = "registered"

\* C10 as stated: what was submitted is a proof that verify_proof_format
\* accepts.
C10_OnlyValidProofsSubmitted ==
  \A n \in Nodes :
    reg[n].tx.sent => verify_proof_format(reg[n].tx.proof)

(***************************************************************************)
(* Claims about the proof functions                                        *)
(***************************************************************************)
\* the five rules of the claim
FiveRulesHold(proof) ==
  /\ Len(proof.instance_id_bytes32) = 32
  /\ Len(proof.derived_public_key) = 20
  /\ Len(proof.app_signature) >= 65
  /\ Len(proof.kms_signature) >= 65
  /\ proof.purpose # ""

\* C15 as stated: verify_proof_format returns false exactly when one of the
\* five rules (hash length, key length, the two signature lengths,
\* non-empty purpose) is violated.
C15_FalseIffOneOfFiveRules ==
  call.fn = "verify_proof_format" =>
    (call.out = FALSE <=> ~FiveRulesHold(call.proof))

\* C15 amended: verify_proof_format returns false exactly when one of six
\* rules is violated, the five and a non-empty app_id; so each of the six,
\* violated alone, makes the result false.
C15_FalseIffOneOfSixRules ==
  call.fn = "verify_proof_format" =>
    (call.out = FALSE
       <=> ~(FiveRulesHold(call.proof) /\ Len(call.proof.app_id) > 0))

\* a proof that breaks the kms-signature rule alone was refused
C15_Witness ==
  /\ call.fn = "verify_proof_format"
  /\ Len(call.proof.instance_id_bytes32) = 32
  /\ Len(call.proof.derived_public_key) = 20
  /\ Len(call.proof.app_signature) >= 65
  /\ Len(call.proof.kms_signature) = 64
  /\ call.proof.purpose # ""
  /\ Len(call.proof.app_id) > 0
  /\ call.out = FALSE

\* a SignatureProof as a Python object; of a str only whether it is empty
\* matters to the checks
AsObject(proof) ==
  [instance_id_bytes32 |-> [t |-> "bytes", v |-> proof.instance_id_bytes32],
   derived_public_key |-> [t |-> "bytes", v |-> proof.derived_public_key],
   app_signature |-> [t |-> "bytes", v |-> proof.app_signature],
   kms_signature |-> [t |-> "bytes", v |-> proof.kms_signature],
   purpose |-> [t |-> "str",
                v |-> IF proof.purpose = "" THEN <<>> ELSE <<proof.purpose>>],
   app_id |-> [t |-> "bytes", v |-> proof.app_id]]

\* C16: on any object verify_proof_format returns a boolean, False when one
\* of its checks raises; on a well-typed proof it returns what the checks
\* give; and a call changes nothing of any node's state.
C16_VerifyNeverRaises ==
  /\ [](call.fn = "verify_proof_format_object"
          => /\ call.out \in {"True", "False"}
             /\ verify_proof_format_try(call.proof) = "raise"
                  => call.out = "False")
  /\ [](call.fn = "verify_proof_format"
          => (call.out
                <=> verify_proof_format_call(AsObject(call.proof)) = "True"))
  /\ [][call'.fn \in {"verify_proof_format", "verify_proof_format_object"}
          => /\ UNCHANGED <<runVars, reg, phase>>
             /\ call'.earlier = call.earlier]_vars

\* a proof whose first four fields pass and whose purpose is an int other
\* than 0: "not 7" is false and len(7) raises
C16_Witness ==
  /\ call.fn = "verify_proof_format_object"
  /\ call.proof.instance_id_bytes32 = py_bytes(32)
  /\ call.proof.derived_public_key = py_bytes(20)
  /\ call.proof.app_signature = py_bytes(65)
  /\ call.proof.kms_signature.t = "str"
  /\ call.proof.purpose = py_int(7)
  /\ call.out = "False"

\* the element is bytes or text that decodes
Decodes(sig) == NormalizeSignature(sig).ok

\* C17: with a KeyProvider whose get_key returns, generate_proof ends with
\* the chain-length error when signature_chain has 0 or 1 elements and
\* never with that error when it has 2 or more; it then returns a proof
\* whenever elements 0 and 1 decode and info() returns an app_id that
\* decodes, with element 0 as app_signature and element 1 as
\* kms_signature; and its result is the result for the first two
\* elements alone.
C17_ChainOfTwoSuffices ==
  (call.fn = "generate_proof" /\ call.fail # "get_key") =>
    LET chain == call.key_response.signature_chain IN
    /\ Len(chain) < 2
        => ~call.out.ok /\ call.out.error = "InsufficientSignatureChain"
    /\ Len(chain) >= 2
        => /\ call.out.error # "InsufficientSignatureChain"
           /\ (/\ Decodes(chain[1])
               /\ Decodes(chain[2])
               /\ call.fail = "nofail"
               /\ AppIdBytes32(call.info.app_id).ok) => call.out.ok
           /\ call.out.ok
               => /\ call.out.proof.app_signature
                       = NormalizeSignature(chain[1]).val
                  /\ call.out.proof.kms_signature
                       = NormalizeSignature(chain[2]).val
           /\ call.out
                = generate_proof(call.instance_id, call.key_purpose,
                                 [key |-> call.key_response.key,
                                  signature_chain |-> SubSeq(chain, 1, 2)],
                                 call.info, call.fail)

\* a proof was returned for a chain of three signatures
C17_Witness ==
  /\ call.fn = "generate_proof"
  /\ Len(call.key_response.signature_chain) = 3
  /\ call.out.ok

\* C18: a proof that generate_proof returns for a chain whose elements 0
\* and 1 are signatures of at least 65 bytes and for a non-empty purpose
\* passes verify_proof_format.
C18_GeneratedProofsVerify ==
  (/\ call.fn = "generate_proof"
   /\ call.out.ok
   /\ Len(call.out.proof.app_signature) >= 65
   /\ Len(call.out.proof.kms_signature) >= 65
   /\ call.key_purpose # "") => verify_proof_format(call.out.proof)

\* a proof built from two signatures given as hexadecimal text
C18_Witness ==
  /\ call.fn = "generate_proof"
  /\ call.out.ok
  /\ call.key_response.signature_chain[1].str
  /\ Len(call.out.proof.app_signature) = 65
  /\ Len(call.out.proof.kms_signature) = 66
  /\ call.key_purpose = "ethereum"
  /\ verify_proof_format(call.out.proof)

\* the bytes that app_id text stands for: a "0x" prefix, if there is one,
\* stripped and the rest decoded
AppIdDecoded(app_id) ==
  FromHex(IF Is0xAt(app_id, 1) THEN DropTwo(app_id) ELSE app_id)

\* C19 as stated: the app_id of a returned proof is exactly 32 bytes, the
\* decoded bytes of the KeyProvider's app_id followed by zero bytes.
C19_AppIdRightPadded ==
  (call.fn = "generate_proof" /\ call.out.ok) =>
    LET d == AppIdDecoded(call.info.app_id).val IN
    /\ Len(call.out.proof.app_id) = 32
    /\ call.out.proof.app_id = d \o Rep(0, 32 - Len(d))

\* C20: the digest of a returned proof has 32 bytes and is the SHA-256
\* digest of the instance id, whatever the purpose, the key and the
\* KeyProvider's answers are: a later proof for the same instance id holds
\* the same digest as an earlier one.
C20_DigestOfInstanceIdOnly ==
  (call.fn = "generate_proof" /\ call.out.ok) =>
    /\ Len(call.out.proof.instance_id_bytes32) = 32
    /\ call.out.proof.instance_id_bytes32 = Sha256(call.instance_id)
    /\ \A i \in 1..Len(call.earlier) :
          call.earlier[i].instance_id = call.instance_id
            => call.earlier[i].digest = call.out.proof.instance_id_bytes32

\* two proofs for one instance id, built with different keys
C20_Witness ==
  /\ call.fn = "generate_proof"
  /\ call.out.ok
  /\ call.key_response.key = "key-2"
  /\ call.earlier # <<>>
  /\ call.earlier[1].instance_id = call.instance_id
  /\ call.out.proof.derived_public_key # AddressBytes("key-1")

(***************************************************************************)
(* More claims about the leader monitor and the counter                    *)
(***************************************************************************)
\* C21 as stated: a cycle that reads a peer X as leader, and whose ledger
\* calls return, sends its health-check request to X, and ping_leader
\* returns true only if X answers its health check.
C21_ProbeAddressedToLeader ==
  CycleOnPeer =>
    /\ last.httpGet = last.read
    /\ last.is_responsive => last.peerUp

\* C22: the operation log of a node only grows at its end, and the values
\* its entries record increase strictly along the log.
C22_LogAppendOnlyIncreasing ==
  /\ [][\A n \in Nodes :
          /\ Len(operation_log'[n]) >= Len(operation_log[n])
          /\ SubSeq(operation_log'[n], 1, Len(operation_log[n]))
               = operation_log[n]]_vars
  /\ [](\A n \in Nodes :
          \A i, j \in 1..Len(operation_log[n]) :
            i < j => operation_log[n][i].new_value
                       < operation_log[n][j].new_value)

\* both nodes have led and logged, one of them twice, and the latest
\* request was refused
C22_Witness ==
  /\ \E n \in Nodes : \E m \in Nodes \ {n} :
        Len(operation_log[n]) >= 2 /\ Len(operation_log[m]) >= 1
  /\ last.kind = "increment"
  /\ last.status = 403

\* C29: a cycle whose currentLeader() read fails leaves is_leader as it was
\* and calls neither ping_leader nor a vote; so a node whose is_leader is
\* true stays leader through such cycles and its /increment requests are
\* accepted.
C29_FailedReadKeepsLeader ==
  /\ [][\A n \in Nodes :
          /\ (StepIsCycle(n) /\ last'.read = "ERR")
              => is_leader'[n] = is_leader[n]
          /\ (StepIsIncrement(n) /\ is_leader[n])
              => last'.status = 200]_vars
  /\ []((last.kind = "cycle" /\ last.read = "ERR")
          => /\ last.probed = None
             /\ last.httpGet = None
             /\ last.voted = None
             /\ last.txs = <<>>)

\* a node that has counted, and that the ledger no longer names, is still
\* leader after a cycle whose read failed
C29_Witness ==
  /\ last.kind = "cycle"
  /\ last.read = "ERR"
  /\ is_leader[last.node]
  /\ currentLeader # last.node
  /\ counter_value[last.node] > 0

\* C30: a cycle that reads the node's own address calls no probe and no
\* vote; the address a cycle probes, the address it votes on and the target
\* of every castVote it sends is the leader read in that cycle, which is
\* neither the node nor the zero address.
C30_NeverSelfNeverZero ==
  last.kind = "cycle" =>
    /\ last.read = last.node
        => last.probed = None /\ last.voted = None /\ last.txs = <<>>
    /\ last.probed # None
        => last.probed = last.read /\ last.read \notin {last.node, ZeroAddr}
    /\ last.voted # None
        => last.voted = last.read /\ last.read \notin {last.node, ZeroAddr}
    /\ \A i \in 1..Len(last.txs) :
          /\ last.txs[i].target = last.read
          /\ last.read \notin {last.node, ZeroAddr}

\* the leader itself has polled and read its own address
C30_Witness ==
  /\ last.kind = "cycle"
  /\ last.read = last.node
  /\ is_leader[last.node]
  /\ fresh[last.node]

\* the step is an iteration of the heartbeat task of node n
StepIsHeartbeat(n) ==
  /\ last'.kind = "heartbeat"
  /\ last'.node = n
  /\ last' # last \/ last_leader_heartbeat'[n] # last_leader_heartbeat[n]

\* C23: last_leader_heartbeat of a node changes only in an iteration of its
\* heartbeat task that finds is_leader true, which sets it to the current
\* time; an iteration that finds is_leader false leaves it as it is; and no
\* iteration changes the ledger, sends a request or touches anything else.
C23_HeartbeatOnlyWhileLeader ==
  [][\A n \in Nodes :
       /\ last_leader_heartbeat'[n] # last_leader_heartbeat[n]
           => StepIsHeartbeat(n) /\ is_leader[n]
       /\ StepIsHeartbeat(n)
           => /\ last_leader_heartbeat'[n] =
                   IF is_leader[n] THEN time_time
                   ELSE last_leader_heartbeat[n]
              /\ last'.is_leader = is_leader[n]
              /\ UNCHANGED <<ledgerVars, responsive, monitorVars,
                             counterVars, reg, phase, call>>]_vars

\* a follower's iteration, while another node has led and written its
\* timestamp
C23_Witness ==
  /\ last.kind = "heartbeat"
  /\ ~last.is_leader
  /\ last_leader_heartbeat[last.node] = 0
  /\ \E m \in Nodes \ {last.node} : last_leader_heartbeat[m] = time_time

StepIsRead(n) == last'.kind = "read" /\ last'.node = n /\ last' # last

StepIsRegister(n) == reg'[n] # reg[n]

\* C24: each field of the leader state has one writer.  is_leader of a
\* node changes only in a cycle of its monitor, where its new value is
\* decided by the leader read and by no vote of the cycle;
\* last_leader_heartbeat changes only in a step of its heartbeat task; a
\* cycle leaves last_leader_heartbeat alone, a heartbeat step leaves
\* is_leader alone, and increment, read and registration steps leave both.
C24_OneWriterPerField ==
  [][\A n \in Nodes :
       /\ is_leader'[n] # is_leader[n] => StepIsCycle(n)
       /\ last_leader_heartbeat'[n] # last_leader_heartbeat[n]
            => StepIsHeartbeat(n)
       /\ StepIsCycle(n) =>
            /\ last_leader_heartbeat'[n] = last_leader_heartbeat[n]
            /\ is_leader'[n] = IF last'.read = "ERR" THEN is_leader[n]
                               ELSE last'.read = n
       /\ StepIsHeartbeat(n) => is_leader'[n] = is_leader[n]
       /\ StepIsIncrement(n) \/ StepIsRead(n) \/ StepIsRegister(n) =>
            /\ is_leader'[n] = is_leader[n]
            /\ last_leader_heartbeat'[n] = last_leader_heartbeat[n]]_vars

\* a registered leader that has beaten its heartbeat and counted serves a
\* read request
C24_Witness ==
  /\ last.kind = "read"
  /\ is_leader[last.node]
  /\ last_leader_heartbeat[last.node] = time_time
  /\ counter_value[last.node] > 0
  /\ reg[last.node].result = "registered"

\* C25: once cleanup() has run on a node, its monitor task is cancelled,
\* its HTTP session is closed, and the node takes no further cycle or
\* heartbeat step: its leader state, its task position and the votes it has
\* cast stay as they are.
C25_TasksStopOnCancellation ==
  /\ [](\A n \in Nodes :
         phase[n] = "stopped" =>
           pc[n] = "cancelled" /\ http_client(n) = "closed")
  /\ [][\A n \in Nodes :
         phase[n] = "stopped" =>
           /\ phase'[n] = "stopped"
           /\ ~StepIsCycle(n)
           /\ ~StepIsHeartbeat(n)
           /\ pc'[n] = pc[n]
           /\ is_leader'[n] = is_leader[n]
           /\ last_leader_heartbeat'[n] = last_leader_heartbeat[n]
           /\ ledgerVotes'[n] = ledgerVotes[n]]_vars

\* a node stopped while it was leader, after a heartbeat
C25_Witness ==
  \E n \in Nodes :
    /\ phase[n] = "stopped"
    /\ is_leader[n]
    /\ last_leader_heartbeat[n] = time_time

\* C26 as stated: while a ledger call of the monitor is pending, the node
\* can still serve a read request and an increment request.
C26_RequestsServedDuringCalls ==
  \A n \in Nodes :
    pc[n] = "reading" =>
      ENABLED ReadRequest(n) /\ ENABLED IncrementCounter(n)

\* C27: every registerInstanceWithProof transaction a node submits carries
\* a token_id that is strictly positive and is the answer walletToTokenId
\* gave in the same attempt, and carries the instance-id hash, derived
\* public key, app signature, kms signature and purpose of the proof
\* generated in the same attempt.
C27_SubmittedArgsFromTokenAndProof ==
  \A n \in Nodes :
    reg[n].tx.sent =>
      LET a == reg[n].tx.args
          p == reg[n].tx.proof
      IN /\ a.token_id > 0
         /\ a.token_id = reg[n].tx.answered
         /\ a.instance_id_bytes32 = p.instance_id_bytes32
         /\ a.derived_public_key = p.derived_public_key
         /\ a.app_signature = p.app_signature
         /\ a.kms_signature = p.kms_signature
         /\ a.purpose = p.purpose

\* a transaction submitted for token 2 under a purpose given on the command
\* line
C27_Witness ==
  \E n \in Nodes :
    /\ reg[n].tx.sent
    /\ reg[n].tx.answered = MaxToken
    /\ reg[n].tx.args.purpose = "mainnet"

\* C28: generate_proof brings each signature to the same bytes whatever its
\* encoding.  When the first two elements of the chain are byte strings b1
\* and b2, each given raw, as hexadecimal text or as "0x" followed by
\* hexadecimal text, no signature makes the call fail (it fails only when
\* the KeyProvider or the app id does), and the proof it returns has
\* app_signature = b1 and kms_signature = b2.
C28_SignaturesNormalized ==
  (call.fn = "generate_proof" /\ Len(call.key_response.signature_chain) >= 2)
    => \A b1 \in SomeBytes, b2 \in SomeBytes :
         (/\ EncodesAs(call.key_response.signature_chain[1], b1)
          /\ EncodesAs(call.key_response.signature_chain[2], b2))
           => /\ call.out.ok
                   <=> (call.fail = "nofail"
                          /\ AppIdBytes32(call.info.app_id).ok)
              /\ call.out.ok
                   => /\ call.out.proof.app_signature = b1
                      /\ call.out.proof.kms_signature = b2

\* a proof made from a "0x"-prefixed text and a plain hexadecimal text of
\* two different byte strings
C28_Witness ==
  /\ call.fn = "generate_proof"
  /\ call.out.ok
  /\ call.key_response.signature_chain
       = <<hex0xOf(<<0, 16, 255>>), hexOf(<<10, 0>>)>>
  /\ call.out.proof.app_signature = <<0, 16, 255>>
  /\ call.out.proof.kms_signature = <<10, 0>>

\* C31: on every node counter_value is the number of entries of
\* operation_log, the i-th entry (counted from 1) records new_value = i, and
\* an accepted increment answers an operation_id equal to the new_value it
\* answers, which is the counter after the request.
C31_CounterIsLogLength ==
  /\ \A n \in Nodes :
       /\ counter_value[n] = Len(operation_log[n])
       /\ \A i \in 1..Len(operation_log[n]) :
            operation_log[n][i].new_value = i
  /\ (last.kind = "increment" /\ last.status = 200)
       => /\ last.operation_id = last.new_value
          /\ last.new_value = counter_value[last.node]

\* the second accepted increment of a node, answered while the other node
\* has a log of its own
C31_Witness ==
  /\ last.kind = "increment"
  /\ last.status = 200
  /\ last.operation_id = 2
  /\ \E m \in Nodes \ {last.node} : Len(operation_log[m]) >= 1

\* C32 as stated: however start() ends once its tasks exist, by shutdown or
\* by a failed registration, cleanup() has run: the monitor task is
\* cancelled and the HTTP session is closed.
C32_EveryExitRunsCleanup ==
  \A n \in Nodes :
    phase[n] \in {"stopped", "failed"} =>
      pc[n] = "cancelled" /\ http_client(n) = "closed"

====
